---------------------------- MODULE Spec2Model ----------------------------
(***************************************************************************)
(* WinPick client: script metadata parser, script launcher and the         *)
(* readers of a launched script's output.                                  *)
(*                                                                         *)
(* Text is a sequence of one-character strings.  A file on disk is a       *)
(* sequence of units: a unit is a character or BAD, a byte that is not     *)
(* valid UTF-8.  Messages that are only displayed are carried as one       *)
(* token.                                                                  *)
(***************************************************************************)
EXTENDS Integers, Sequences, FiniteSets, TLC

VARIABLES
    script_path,   \* parser input: the path handed to parse_script_metadata
    fstate,        \* state of the file behind script_path
    file,          \* the file's content, as padding followed by lines
    win32,         \* the version-resource facility seen by get_exe_metadata
    meta,          \* the six-field record returned by the parser
    ppc,           \* parser position: "ready", "returned" or "raised"
    gui,           \* the script list of the desktop window and what it offers
    front,         \* the program running: "parser", "desktop" or "web"
    undo,          \* the undo flag of the request being served
    cpc,           \* position of the initiating thread
    ret,           \* what the last launch call returned to its caller
    calls,         \* the launcher calls made so far, with their outcome
    procs,         \* the OS processes spawned, in spawn order
    readers,       \* the reader thread of each process (desktop)
    sink,          \* what was printed or handed to the output callback
    elev,          \* the elevation requests made through ShellExecuteW
    shown,         \* how many entries of sink the console view has taken
    auth           \* the GitHub handler: its token and its poll for one

parseVars == <<script_path, fstate, file, win32, meta, ppc, gui, auth>>

runVars == <<front, undo, cpc, ret, calls, procs, readers, sink, elev, shown>>

vars == <<script_path, fstate, file, win32, meta, ppc, gui,
          front, undo, cpc, ret, calls, procs, readers, sink, elev, shown, auth>>

-----------------------------------------------------------------------------
(* Characters *)

UpperChars ==
    <<"A","B","C","D","E","F","G","H","I","J","K","L","M",
      "N","O","P","Q","R","S","T","U","V","W","X","Y","Z">>

LowerChars ==
    <<"a","b","c","d","e","f","g","h","i","j","k","l","m",
      "n","o","p","q","r","s","t","u","v","w","x","y","z">>

\* str.lower() on one character
LowerChar(c) ==
    IF \E i \in 1..26 : UpperChars[i] = c
    THEN LowerChars[CHOOSE i \in 1..26 : UpperChars[i] = c]
    ELSE c

\* str.lower()
Lower(s) == [i \in 1..Len(s) |-> LowerChar(s[i])]

\* the characters str.strip() removes
Whitespace == {" ", "\t", "\n", "\r", "\f"}

\* a strip() that removes nothing
Strip_M(s) == s

\* str.strip()
Strip(s) ==
    LET keep == {i \in 1..Len(s) : s[i] \notin Whitespace}
    IN  IF keep = {} THEN <<>>
        ELSE LET lo == CHOOSE i \in keep : \A j \in keep : i <= j
                 hi == CHOOSE i \in keep : \A j \in keep : j <= i
             IN  SubSeq(s, lo, hi)

\* the least element of a non-empty set of integers
Min(S) == CHOOSE i \in S : \A j \in S : i <= j

\* the greatest element of a non-empty set of integers
Max(S) == CHOOSE i \in S : \A j \in S : j <= i

-----------------------------------------------------------------------------
(* Paths: os.path on the Windows host *)

PathSeps == {"\\", "/"}

\* index of the last path separator, 0 when there is none
LastSep(p) ==
    LET S == {i \in 1..Len(p) : p[i] \in PathSeps}
    IN  IF S = {} THEN 0 ELSE Max(S)

\* the whole path where the base name is meant
Basename_M(p) == p

\* os.path.basename
Basename(p) == SubSeq(p, LastSep(p) + 1, Len(p))

\* index where the extension starts, 0 when the name has no extension:
\* the last dot after the last separator, unless only dots precede it
ExtIndex(p) ==
    LET D == {i \in 1..Len(p) : p[i] = "."}
    IN  IF D = {} THEN 0
        ELSE LET dot == Max(D)
                 sep == LastSep(p)
             IN  IF dot > sep /\ \E k \in (sep + 1)..(dot - 1) : p[k] # "."
                 THEN dot ELSE 0

\* os.path.splitext(p)[1]
SplitExt(p) == IF ExtIndex(p) = 0 THEN <<>> ELSE SubSeq(p, ExtIndex(p), Len(p))

\* os.path.splitext(p)[0]
SplitRoot(p) == IF ExtIndex(p) = 0 THEN p ELSE SubSeq(p, 1, ExtIndex(p) - 1)

\* the extension as the code compares it: splitext, then lower
ExtOf(p) == Lower(SplitExt(p))

DotPy == <<".","p","y">>
DotPs1 == <<".","p","s","1">>
DotBat == <<".","b","a","t">>
DotCmd == <<".","c","m","d">>
DotExe == <<".","e","x","e">>


-----------------------------------------------------------------------------
(* Files *)

BAD == "BAD"

\* a line of a script file: the comment marker, the blanks after it, the
\* keyword as written, the blanks after the colon, the value, the blanks
\* after the value and the line terminator.  field names the keyword
\* ("none" for a line that is plain text: value and terminator only).
LineText(l) ==
    IF l.field = "none"
    THEN l.value \o l.eol
    ELSE l.cm \o l.gap \o l.key \o <<":">> \o l.lead \o l.value \o l.trail \o l.eol

\* the units the padding unit of a file stands for
PadUnit(u) == IF u = "crlf" THEN <<"\r", "\n">> ELSE <<u>>

\* n copies of the units s
Repeat(s, n) == [i \in 1..(n * Len(s)) |-> s[((i - 1) % Len(s)) + 1]]

RECURSIVE Concat(_)
\* the texts of a sequence of lines, one after the other
Concat(ls) == IF ls = <<>> THEN <<>> ELSE LineText(Head(ls)) \o Concat(Tail(ls))

\* the units of a file on disk
Units(f) == Repeat(PadUnit(f.padUnit), f.pad) \o Concat(f.lines)

-----------------------------------------------------------------------------
(* open(script_path, 'r', encoding='utf-8', errors='ignore').read(2000) *)

ReadLimit == 2000

\* errors='ignore': bytes that do not decode are dropped
DropBad(u) == SelectSeq(u, LAMBDA c : c # BAD)

\* text mode with universal newlines: "\r\n" and a lone "\r" become "\n"
Newlines(s) ==
    LET pairs == [i \in 1..Len(s) |->
                    <<s[i], IF i < Len(s) THEN s[i + 1] ELSE "">>]
        kept == SelectSeq(pairs, LAMBDA p : ~(p[1] = "\r" /\ p[2] = "\n"))
    IN  [i \in 1..Len(kept) |-> IF kept[i][1] = "\r" THEN "\n" ELSE kept[i][1]]

\* the text the file object delivers
Decode(u) == Newlines(DropBad(u))

\* a read without the size argument
Read_M(s, n) == s

\* f.read(n): at most n characters
Read(s, n) == IF Len(s) <= n THEN s ELSE SubSeq(s, 1, n)

\* the outcome of open(): the exception it raises, "" when it succeeds
OpenError(path, st) ==
    IF \E i \in 1..Len(path) : path[i] = "NUL" THEN "ValueError"
    ELSE IF st \in {"missing", "vanished"} THEN "FileNotFoundError"
    ELSE IF st = "denied" THEN "PermissionError"
    ELSE ""

\* str(e) of the exception, as one token
ErrText(e) == <<e>>

ErrPrefix == <<"Error reading metadata: ">>

-----------------------------------------------------------------------------
(* re.search(r'(?i)<marker>[ \t]*<KEY>:[ \t]*(.*?)[\r\n]', content) *)

Blank == {" ", "\t"}
LineEnd == {"\r", "\n"}

\* the first index >= j of c that holds no blank (Len(c) + 1 at the end)
SkipBlanks(c, j) ==
    LET S == {k \in j..Len(c) : c[k] \notin Blank}
    IN  IF S = {} THEN Len(c) + 1 ELSE Min(S)

\* whether the literal lit (lower case) stands at index i of c
LitAt(c, i, lit) ==
    /\ i + Len(lit) - 1 <= Len(c)
    /\ \A k \in 1..Len(lit) : LowerChar(c[i + k - 1]) = lit[k]

\* index of the keyword of a match starting at i
KeyStart(c, i, marker) == SkipBlanks(c, i + Len(marker))

\* index where group 1 of a match starting at i begins
ValueStart(c, i, marker, key) ==
    SkipBlanks(c, KeyStart(c, i, marker) + Len(key) + 1)

\* the ends a pattern closed by ([\r\n]|\Z) would take: the end of the
\* text counts as a line end
LineEnds_M(c, v) == {e \in v..(Len(c) + 1) : e = Len(c) + 1 \/ c[e] \in LineEnd}

\* the line ends at or after index v
LineEnds(c, v) == {e \in v..Len(c) : c[e] \in LineEnd}

\* whether the pattern matches at index i
MatchAt(c, i, marker, key) ==
    /\ LitAt(c, i, marker)
    /\ LitAt(c, KeyStart(c, i, marker), key \o <<":">>)
    /\ LineEnds(c, ValueStart(c, i, marker, key)) # {}

\* group 1 of the match at index i
Group1(c, i, marker, key) ==
    LET v == ValueStart(c, i, marker, key)
    IN  SubSeq(c, v, Min(LineEnds(c, v)) - 1)

\* a search that returns the last match of the text
Search_M(c, marker, key) ==
    LET S == {i \in 1..Len(c) : c[i] = marker[1] /\ MatchAt(c, i, marker, key)}
    IN  IF S = {} THEN 0 ELSE Max(S)

\* re.search: the start of the leftmost match, 0 when there is none
Search(c, marker, key) ==
    LET S == {i \in 1..Len(c) : c[i] = marker[1] /\ MatchAt(c, i, marker, key)}
    IN  IF S = {} THEN 0 ELSE Min(S)

\* match.group(1).strip() if match else default
Field(c, marker, key, default) ==
    LET i == Search(c, marker, key)
    IN  IF i = 0 THEN default ELSE Strip(Group1(c, i, marker, key))

K_NAME == <<"n","a","m","e">>
K_DESCRIPTION == <<"d","e","s","c","r","i","p","t","i","o","n">>
K_UNDOABLE == <<"u","n","d","o","a","b","l","e">>
K_UNDO_DESC == <<"u","n","d","o","_","d","e","s","c">>
K_DEVELOPER == <<"d","e","v","e","l","o","p","e","r">>
K_LINK == <<"l","i","n","k">>

Hash == <<"#">>
ColonColon == <<":", ":">>

\* the batch patterns chosen for .bat alone
MarkerFor_M(ext) == IF ext = DotBat THEN ColonColon ELSE Hash

\* the comment marker of the patterns chosen for an extension
MarkerFor(ext) == IF ext \in {DotBat, DotCmd} THEN ColonColon ELSE Hash

Yes == <<"Y","e","s">>
No == <<"N","o">>

\* the list of accepted values without "1"
TrueWords_M == {<<"y","e","s">>, <<"t","r","u","e">>}

\* the values of UNDOABLE that mean yes
TrueWords == {<<"y","e","s">>, <<"t","r","u","e">>, <<"1">>}

\* the undoable flag from the text
Undoable(c, marker) ==
    LET i == Search(c, marker, K_UNDOABLE)
    IN  IF i = 0 THEN No
        ELSE IF Lower(Strip(Group1(c, i, marker, K_UNDOABLE))) \in TrueWords
             THEN Yes ELSE No

Record(n, d, u, ud, dev, l) ==
    [name |-> n, description |-> d, undoable |-> u, undo_desc |-> ud,
     developer |-> dev, link |-> l]

\* the six fields parsed from the text read
ParseText(path, c) ==
    LET m == MarkerFor(ExtOf(path))
    IN  Record(Field(c, m, K_NAME, Basename(path)),
               Field(c, m, K_DESCRIPTION, <<>>),
               Undoable(c, m),
               Field(c, m, K_UNDO_DESC, <<>>),
               Field(c, m, K_DEVELOPER, <<>>),
               Field(c, m, K_LINK, <<>>))

-----------------------------------------------------------------------------
(* get_exe_metadata and parse_script_metadata *)

\* the exception classes "except Exception" catches
ExceptionClasses ==
    {"ValueError", "FileNotFoundError", "PermissionError", "OSError",
     "ImportError", "KeyError", "pywintypes.error"}

\* an except clause for a missing file only
Caught_M(e) == e = "FileNotFoundError"

\* whether an "except Exception" clause catches e
Caught(e) == e \in ExceptionClasses

\* a returned value, or the exception that leaves the function
Return(v) == [raised |-> "", value |-> v]
Raise(e) == [raised |-> e, value |-> <<>>]

\* a lookup whose exception is not caught
get_exe_metadata_M(exe_path, w) ==
    IF w.available /\ w.failAt # 0 THEN Raise("pywintypes.error")
    ELSE Return(Record(SplitRoot(Basename(exe_path)), <<"Windows Executable">>,
                       No, <<>>, <<>>, <<>>))

\* the version-resource lookups: w.available tells whether win32api
\* imports, w.failAt the lookup that raises (0: none; 1: the root block,
\* 2: the translation, 3: FileDescription, 4: ProductName), w.desc and
\* w.name what the last two lookups return
get_exe_metadata(exe_path, w) ==
    IF ~w.available
    THEN Return(Record(SplitRoot(Basename(exe_path)), <<"Windows Executable">>,
                       No, <<>>, <<>>, <<>>))
    ELSE LET description ==
                 IF w.failAt \in {0, 4} /\ w.desc # <<>>
                 THEN w.desc ELSE <<"Executable file">>
             name ==
                 IF w.failAt = 0 /\ w.name # <<>>
                 THEN w.name ELSE Basename(exe_path)
         IN  Return(Record(name, description, No, <<>>, <<>>, <<>>))

\* the exception open() or read() raises for the file, "" when none
ReadError(path, st) ==
    IF OpenError(path, st) # "" THEN OpenError(path, st)
    ELSE IF st = "unreadable" THEN "OSError"
    ELSE ""

\* the record of the except clause
ErrorRecord(path, e) ==
    Record(Basename(path), ErrPrefix \o ErrText(e), No, <<>>, <<>>, <<>>)

parse_script_metadata(path, st, f, w) ==
    IF ExtOf(path) = DotExe THEN get_exe_metadata(path, w)
    ELSE LET e == ReadError(path, st)
         IN  IF e = ""
             THEN Return(ParseText(path, Read(Decode(Units(f)), ReadLimit)))
             ELSE IF Caught(e) THEN Return(ErrorRecord(path, e))
             ELSE Raise(e)

-----------------------------------------------------------------------------
(* The script files and paths the parser is run on *)

MaxLines == 3       \* lines of a header
MaxOver == 2        \* how far past the read limit the padding goes

Fields == {"NAME", "DESCRIPTION", "UNDOABLE", "UNDO_DESC", "DEVELOPER", "LINK"}

KeyOf(field) ==
    CASE field = "NAME" -> K_NAME
      [] field = "DESCRIPTION" -> K_DESCRIPTION
      [] field = "UNDOABLE" -> K_UNDOABLE
      [] field = "UNDO_DESC" -> K_UNDO_DESC
      [] field = "DEVELOPER" -> K_DEVELOPER
      [] field = "LINK" -> K_LINK
      [] OTHER -> <<>>

UpperChar(c) ==
    IF \E i \in 1..26 : LowerChars[i] = c
    THEN UpperChars[CHOOSE i \in 1..26 : LowerChars[i] = c]
    ELSE c

\* a keyword as a script author writes it
Written(key, case) ==
    [i \in 1..Len(key) |->
        IF case = "upper" \/ (case = "mixed" /\ i = 1)
        THEN UpperChar(key[i]) ELSE key[i]]

\* the value a header declares for a field, when the header does not vary it
SampleValue(field) ==
    CASE field = "NAME" -> <<"F","o","o">>
      [] field = "DESCRIPTION" -> <<"d","o"," ","i","t">>
      [] field = "UNDOABLE" -> <<"Y","e","s">>
      [] field = "UNDO_DESC" -> <<"u","n","d","o"," ","i","t">>
      [] field = "DEVELOPER" -> <<"m","e">>
      [] field = "LINK" -> <<"h",":","/","/","x">>
      [] OTHER -> <<"x"," ","="," ","1">>

LF == <<"\n">>
CRLF == <<"\r", "\n">>

Line(cm, gap, case, field, lead, value, trail, eol) ==
    [cm |-> cm, gap |-> gap, key |-> Written(KeyOf(field), case), field |-> field,
     lead |-> lead, value |-> value, trail |-> trail, eol |-> eol]

\* a line in the form the script templates write it
PlainLine(cm, field) ==
    Line(cm, <<" ">>, "upper", field, <<" ">>, SampleValue(field), <<>>, LF)

\* family names the set of files a file is drawn from
File(family, pad, unit, lines) ==
    [family |-> family, pad |-> pad, padUnit |-> unit, lines |-> lines]

Markers == {Hash, ColonColon}

\* the orders in which at most MaxLines different kinds of line can stand
Orders ==
    {o \in UNION {[1..n -> Fields \cup {"none"}] : n \in 0..MaxLines} :
        \A i, j \in DOMAIN o : i # j => o[i] # o[j]}

\* headers declaring a subset of the fields, in any order, among plain text
HeaderFiles ==
    {File("header", 0, "x", [i \in DOMAIN o |-> PlainLine(cm, o[i])]) :
        o \in Orders, cm \in Markers}

UndoValues ==
    {<<"Y","e","s">>, <<"y","e","s">>, <<"T","R","U","E">>, <<"1">>,
     <<"N","o">>, <<>>, <<"m","a","y","b","e">>, <<"y","e","s"," ","1">>}

BlankRuns == {<<>>, <<" ">>, <<"\t", " ">>}

\* files of one UNDOABLE line, in every spelling
UndoFiles ==
    {File("undo", 0, "x", <<Line(cm, b, case, "UNDOABLE", b, v, t, eol)>>) :
        cm \in Markers, b \in BlankRuns, case \in {"upper", "lower", "mixed"},
        v \in UndoValues, t \in {<<>>, <<" ">>}, eol \in {LF, CRLF, <<>>}}

\* the paddings that put a line around the read limit
Pads == {0, 100} \cup ((ReadLimit - 13)..(ReadLimit + MaxOver))

\* files whose one or two lines stand after a padding
PaddedFiles ==
    {File("padded", n, u,
          <<Line(Hash, <<" ">>, "upper", "NAME", <<" ">>, SampleValue("NAME"), <<>>, eol)>>) :
        n \in Pads, u \in {"x", "crlf", BAD}, eol \in {LF, <<>>}}

\* a value of one field that quotes the marker line of another
Quote(cm, field) ==
    <<"s","e","e"," ">> \o cm \o <<" ">> \o Written(KeyOf(field), "upper")
        \o <<":"," ","Z","e","d">>

QuotingFiles ==
    {File("quoting", 0, "x",
          <<Line(cm, <<" ">>, "upper", hq[1], <<" ">>, Quote(cm, hq[2]), <<>>, LF)>>) :
        cm \in Markers, hq \in {x \in Fields \X Fields : x[1] # x[2]}}

\* the two values of a field a header declares one after the other
ValuePairs(field) ==
    IF field = "UNDOABLE"
    THEN {<<No, Yes>>, <<Yes, No>>}
    ELSE {<<SampleValue(field), <<"Z","e","d">>>>, <<<<"Z","e","d">>, SampleValue(field)>>}

\* headers that declare one field twice, with different values, each line
\* in one of the two comment syntaxes
RepeatedFiles ==
    {File("repeated", 0, "x",
          <<Line(cms[1], <<" ">>, "upper", F, <<" ">>, vs[1], <<>>, LF),
            Line(cms[2], <<" ">>, "upper", F, <<" ">>, vs[2], <<>>, LF)>>) :
        cms \in Markers \X Markers, F \in Fields,
        vs \in UNION {ValuePairs(G) : G \in Fields}}

Files == HeaderFiles \cup UndoFiles \cup PaddedFiles \cup QuotingFiles \cup RepeatedFiles

Dirs == {<<>>, <<"d","/">>, <<"d",".","x","\\">>}

Stems == {<<"a">>, <<"a",".","b">>, <<>>}

WrittenExts ==
    {<<>>, <<".","p","y">>, <<".","P","Y">>, <<".","p","s","1">>,
     <<".","b","a","t">>, <<".","B","a","t">>, <<".","c","m","d">>,
     <<".","e","x","e">>, <<".","E","X","E">>, <<".","t","x","t">>}

Paths == {d \o st \o e : d \in Dirs, st \in Stems, e \in WrittenExts}

\* the paths the text parser is run on with every file
TextPaths ==
    {<<"a",".","p","y">>, <<"d","/","a",".","p","s","1">>,
     <<"d",".","x","\\","a",".","B","a","t">>, <<"a",".","c","m","d">>,
     <<"a",".","t","x","t">>, <<"a">>}

FileStates == {"readable", "missing", "denied", "unreadable"}

NoWin32 == [available |-> FALSE, failAt |-> 0, desc |-> <<>>, name |-> <<>>]

Win32s ==
    {NoWin32} \cup
    [available : {TRUE}, failAt : 0..4,
     desc : {<<>>, <<"A"," ","t","o","o","l">>},
     name : {<<>>, <<"T","o","o","l">>}]

NoMeta == Record(<<>>, <<>>, <<>>, <<>>, <<>>, <<>>)

\* the window before a category is loaded: no row, nothing offered
NoGui == [tree |-> <<>>, click |-> "", menu |-> {}]

\* the value of ret before any launch call returned
NoRet == [success |-> FALSE, kind |-> "none", code |-> 0, output |-> <<>>]

\* a handler that has not polled: self.token = None
NoAuth ==
    [pc |-> "idle", token |-> "None", before |-> "None", interval |-> 0,
     expires_in |-> 0, elapsed |-> 0, result |-> "none", exit |-> "",
     granted |-> "None", last |-> ""]

-----------------------------------------------------------------------------
(* The parser as a state machine *)

InitParse ==
    /\ \/ /\ script_path \in TextPaths
          /\ fstate = "readable"
          /\ file \in Files
          /\ win32 = NoWin32
       \/ /\ script_path \in Paths \cup {<<"a","NUL",".","p","y">>}
          /\ fstate \in FileStates
          /\ file = File("header", 0, "x", <<PlainLine(Hash, "NAME")>>)
          /\ win32 \in IF ExtOf(script_path) = DotExe THEN Win32s ELSE {NoWin32}
    /\ meta = NoMeta
    /\ ppc = "ready"
    /\ gui = NoGui
    /\ auth = NoAuth
    /\ front = "parser"
    /\ undo = FALSE
    /\ cpc = "idle"
    /\ ret = NoRet
    /\ calls = <<>>
    /\ procs = <<>>
    /\ readers = <<>>
    /\ sink = <<>>
    /\ elev = <<>>
    /\ shown = 0

\* the file is removed after the caller listed it and before it is parsed
FileVanishes ==
    /\ ppc = "ready"
    /\ fstate = "readable"
    /\ fstate' = "vanished"
    /\ UNCHANGED <<script_path, file, win32, meta, ppc, gui, auth>>
    /\ UNCHANGED runVars

\* one call of parse_script_metadata(script_path)
ParseScriptMetadata ==
    /\ ppc = "ready"
    /\ LET r == parse_script_metadata(script_path, fstate, file, win32)
       IN  /\ meta' = r.value
           /\ ppc' = IF r.raised = "" THEN "returned" ELSE "raised"
    /\ UNCHANGED <<script_path, fstate, file, win32, gui, auth>>
    /\ UNCHANGED runVars

NextParse == FileVanishes \/ ParseScriptMetadata

SpecParse == InitParse /\ [][NextParse]_vars

-----------------------------------------------------------------------------
(* What a header declares, read off the structure of the file *)

BatWritten == {<<".","b","a","t">>, <<".","B","a","t">>, <<".","c","m","d">>}

ExeWritten == {<<".","e","x","e">>, <<".","E","X","E">>}

NulStem == <<"a","NUL">>

\* the path is a directory, a non-empty stem and one of the extensions E
HasExt(p, E) ==
    \E d \in Dirs, st \in (Stems \ {<<>>}) \cup {NulStem}, e \in E : p = d \o st \o e

\* the file name the path ends with
BaseNameOf(p) ==
    CHOOSE n \in {st \o e : st \in Stems \cup {NulStem}, e \in WrittenExts} :
        \E d \in Dirs : p = d \o n

HasNul(p) == \E i \in 1..Len(p) : p[i] = "NUL"

\* the comment marker of the script type
CommentOf(p) == IF HasExt(p, BatWritten) THEN ColonColon ELSE Hash

\* characters of the padding, as the text reader counts them
PadChars(f) == IF f.padUnit = BAD THEN 0 ELSE f.pad

\* characters of a line, as the text reader counts them
LineChars(l) ==
    (IF l.field = "none" THEN Len(l.value)
     ELSE Len(l.cm) + Len(l.gap) + Len(l.key) + 1 + Len(l.lead) + Len(l.value)
            + Len(l.trail))
    + (IF l.eol = <<>> THEN 0 ELSE 1)

RECURSIVE EndOf(_, _)
\* position of the last character of line k (of the padding for k = 0)
EndOf(f, k) == IF k = 0 THEN PadChars(f) ELSE EndOf(f, k - 1) + LineChars(f.lines[k])

\* line k is a whole line inside the scanned prefix
Complete(f, k) == f.lines[k].eol # <<>> /\ EndOf(f, k) <= ReadLimit

\* the lines that declare field F in the comment syntax of the script type
Declares(f, p, F) ==
    {k \in DOMAIN f.lines :
        f.lines[k].field = F /\ f.lines[k].cm = CommentOf(p) /\ Complete(f, k)}

DefaultOf(p, F) ==
    IF F = "NAME" THEN BaseNameOf(p) ELSE IF F = "UNDOABLE" THEN No ELSE <<>>

TrueValues == {<<"Y","e","s">>, <<"y","e","s">>, <<"T","R","U","E">>, <<"1">>}

FalseValues == {<<"N","o">>, <<>>, <<"m","a","y","b","e">>, <<"y","e","s"," ","1">>}

\* the value the header declares for F, its default when it declares none
Expected(f, p, F) ==
    IF Declares(f, p, F) = {} THEN DefaultOf(p, F)
    ELSE LET v == f.lines[Min(Declares(f, p, F))].value
         IN  IF F # "UNDOABLE" THEN v ELSE IF v \in TrueValues THEN Yes ELSE No

Got(m, F) ==
    CASE F = "NAME" -> m.name
      [] F = "DESCRIPTION" -> m.description
      [] F = "UNDOABLE" -> m.undoable
      [] F = "UNDO_DESC" -> m.undo_desc
      [] F = "DEVELOPER" -> m.developer
      [] F = "LINK" -> m.link

AllDefaults(p) == Record(BaseNameOf(p), <<>>, No, <<>>, <<>>, <<>>)

\* the parser returned from reading a text script
TextParsed ==
    /\ ppc = "returned"
    /\ fstate = "readable"
    /\ ~HasNul(script_path)
    /\ ~HasExt(script_path, ExeWritten)

\* the parser returned after open() or read() failed
ReadFailed ==
    /\ ppc = "returned"
    /\ fstate # "readable" \/ HasNul(script_path)
    /\ ~HasExt(script_path, ExeWritten)

-----------------------------------------------------------------------------
(* Metadata parser: claims *)

\* C1: parse_script_metadata never raises: for every path and file state it
\* returns a record of six fields, and when opening or reading the file
\* fails the description carries the error text and the other five fields
\* carry their defaults.
C1_ParseTotal ==
    /\ ppc # "raised"
    /\ ppc = "returned" =>
          /\ DOMAIN meta =
               {"name", "description", "undoable", "undo_desc", "developer", "link"}
          /\ meta.undoable \in {Yes, No}
    /\ ReadFailed =>
          /\ Len(meta.description) = 2
          /\ meta.description[1] = "Error reading metadata: "
          /\ meta.description[2] \in
               {"FileNotFoundError", "PermissionError", "OSError", "ValueError"}
          /\ [meta EXCEPT !.description = <<>>] = AllDefaults(script_path)

C1_Witness ==
    /\ ReadFailed
    /\ fstate = "vanished"
    /\ meta.description = <<"Error reading metadata: ", "FileNotFoundError">>

\* C2: a readable text script whose scanned prefix holds no marker line of
\* its comment syntax parses to the base name, four empty strings and
\* undoable = No.
C2_NoMarkerDefaults ==
    (/\ TextParsed
     /\ \A F \in Fields : Declares(file, script_path, F) = {}
     /\ file.family # "quoting")
        => meta = AllDefaults(script_path)

C2_Witness ==
    /\ TextParsed
    /\ \A F \in Fields : Declares(file, script_path, F) = {}
    /\ file.family = "header"
    /\ Len(file.lines) = MaxLines
    /\ script_path = <<"d",".","x","\\","a",".","B","a","t">>
    /\ meta.name = <<"a",".","B","a","t">>

\* C3: the undoable flag is Yes exactly when the header's UNDOABLE line
\* carries Yes, yes, TRUE or 1 (any spelling of the keyword, any blanks
\* around the value); for No, the empty value, maybe and any other text,
\* and when no UNDOABLE line is declared, it is No.
C3_UndoableNormalized ==
    TextParsed /\ file.family \in {"undo", "header"} =>
        LET D == Declares(file, script_path, "UNDOABLE")
        IN  /\ D = {} => meta.undoable = No
            /\ \A k \in D :
                  /\ file.lines[k].value \in TrueValues => meta.undoable = Yes
                  /\ file.lines[k].value \in FalseValues => meta.undoable = No
                  /\ file.lines[k].value \in TrueValues \cup FalseValues

C3_Witness ==
    /\ TextParsed
    /\ file.family = "undo"
    /\ Declares(file, script_path, "UNDOABLE") = {1}
    /\ file.lines[1].value = <<"1">>
    /\ file.lines[1].key = <<"U","n","d","o","a","b","l","e">>
    /\ file.lines[1].trail = <<" ">>
    /\ meta.undoable = Yes

\* C4: every declared field is returned with its own value and every
\* undeclared field with its default, whatever the other lines of the file
\* hold.
C4_FieldIndependence ==
    TextParsed =>
        \A F \in Fields : Got(meta, F) = Expected(file, script_path, F)

\* C5: a .bat or .cmd script has only its "::" lines recognized and every
\* other text script only its "#" lines: a header written in the comment
\* syntax of the script type yields its values, the same header in the
\* other syntax yields the defaults.
C5_MarkerSelection ==
    TextParsed /\ file.family = "header" =>
        \A k \in DOMAIN file.lines :
            LET l == file.lines[k]
                batch == HasExt(script_path, BatWritten)
            IN  l.field # "none" =>
                  IF (l.cm = ColonColon) = batch
                  THEN Got(meta, l.field) = Expected(file, script_path, l.field)
                       /\ (l.field = "NAME" => meta.name = <<"F","o","o">>)
                  ELSE Got(meta, l.field) = DefaultOf(script_path, l.field)

C5_Witness ==
    /\ TextParsed
    /\ file.family = "header"
    /\ script_path = <<"d",".","x","\\","a",".","B","a","t">>
    /\ \E k \in DOMAIN file.lines :
          /\ file.lines[k].field = "NAME"
          /\ file.lines[k].cm = Hash
    /\ meta.name = <<"a",".","B","a","t">>

\* the file with other text after its last line
WithTail(f, t) == [f EXCEPT !.lines = @ \o <<t>>]

Tails ==
    {Line(<<>>, <<>>, "upper", "none", <<>>, <<>>, <<>>, LF),
     Line(Hash, <<" ">>, "upper", "NAME", <<" ">>, <<"Z","e","d">>, <<>>, LF)}

\* C6: a NAME line that starts after the first 2000 characters is not
\* detected, a NAME line that ends within them is detected, and what
\* follows the first 2000 characters changes no field.
C6_ScanWindow ==
    TextParsed /\ file.family = "padded" =>
        /\ PadChars(file) >= ReadLimit => meta.name = BaseNameOf(script_path)
        /\ Complete(file, 1) /\ file.lines[1].cm = CommentOf(script_path)
              => meta.name = <<"F","o","o">>
        /\ EndOf(file, Len(file.lines)) >= ReadLimit =>
              \A t \in Tails :
                  parse_script_metadata(script_path, fstate, WithTail(file, t), win32)
                      = Return(meta)

C6_Witness ==
    /\ TextParsed
    /\ file.family = "padded"
    /\ file.padUnit = "x"
    /\ file.pad = ReadLimit
    /\ file.lines[1].eol = LF
    /\ meta.name = <<"a",".","p","y">>

-----------------------------------------------------------------------------
(* run_script: the invocation built for a script *)

\* a word of a command line or of a message, as one token
Tok(w) == <<w>>

\* what the launcher hands to subprocess.Popen, or the exception it raises
Launch(cmd, shell, printed) ==
    [raised |-> "", msg |-> <<>>, cmd |-> cmd, shell |-> shell, printed |-> printed]

Fail(e, msg, printed) ==
    [raised |-> e, msg |-> msg, cmd |-> <<>>, shell |-> FALSE, printed |-> printed]

\* a "-Undo" where "--undo" is meant
UndoArg_M(ext) ==
    IF ext = DotPs1 THEN Tok("-Undo")
    ELSE IF ext = DotPy THEN Tok("-Undo")
    ELSE Tok("undo")

\* the argument that asks a script to undo
UndoArg(ext) ==
    IF ext = DotPs1 THEN Tok("-Undo")
    ELSE IF ext = DotPy THEN Tok("--undo")
    ELSE Tok("undo")

\* a launcher that never passes the undo argument
UndoArgs_M(ext, u) == <<>>

\* the arguments appended in undo mode
UndoArgs(ext, u) == IF u THEN <<UndoArg(ext)>> ELSE <<>>

\* the .exe branch without its undo check
ExeBranch_M(path, u) == Launch(<<path>>, FALSE, <<>>)

\* the .exe branch of run_script
ExeBranch(path, u) ==
    IF u
    THEN Fail("ValueError", Tok("Undo operation not supported for EXE files"),
              <<"WARNING: Undo operation not supported for EXE files">>)
    ELSE Launch(<<path>>, FALSE, <<>>)

\* a last branch that runs the file directly
OtherBranch_M(path, ext) == Launch(<<path>>, FALSE, <<>>)

\* the last branch of run_script
OtherBranch(path, ext) ==
    Fail("ValueError", Tok("Unsupported script type: ") \o ext, <<>>)

run_script(path, u) ==
    LET ext == ExtOf(path)
    IN  IF ext = DotPs1
        THEN Launch(<<Tok("powershell"), Tok("-ExecutionPolicy"), Tok("Bypass"),
                      Tok("-File"), path>> \o UndoArgs(ext, u), FALSE, <<>>)
        ELSE IF ext = DotPy
        THEN Launch(<<Tok("sys.executable"), path>> \o UndoArgs(ext, u), FALSE, <<>>)
        ELSE IF ext \in {DotBat, DotCmd}
        THEN Launch(<<path>> \o UndoArgs(ext, u), TRUE, <<>>)
        ELSE IF ext = DotExe
        THEN ExeBranch(path, u)
        ELSE OtherBranch(path, ext)

\* the command run_script_web builds, or its refusal
web_command(path, u) ==
    LET ext == ExtOf(path)
    IN  IF ext = DotPy
        THEN Launch(<<Tok("sys.executable"), path>>
                        \o (IF u THEN <<Tok("--undo")>> ELSE <<>>), TRUE, <<>>)
        ELSE IF ext = DotPs1
        THEN Launch(<<Tok("powershell"), Tok("-ExecutionPolicy"), Tok("Bypass"),
                      Tok("-File"), path>>
                        \o (IF u THEN <<Tok("-Undo")>> ELSE <<>>), TRUE, <<>>)
        ELSE IF ext \in {DotBat, DotCmd}
        THEN Launch(<<path>> \o (IF u THEN <<Tok("undo")>> ELSE <<>>), TRUE, <<>>)
        ELSE IF ext = DotExe
        THEN Launch(<<path>> \o (IF u THEN <<Tok("/undo")>> ELSE <<>>), TRUE, <<>>)
        ELSE Fail("", Tok("Unsupported script type: ") \o ext, <<>>)

-----------------------------------------------------------------------------
(* run_script_as_admin: the elevation request built for a script *)

DQuote == "\""

\* what ShellExecuteW does with a request: it starts the program, it
\* returns an error status (the consent prompt was declined), or the call
\* raises
Elevations == {"accepted", "declined", "raised"}

\* one call of ShellExecuteW(None, "runas", file, params, None, 1)
ShellExecuteW(lpFile, lpParameters, oc) ==
    [verb |-> "runas", file |-> lpFile, params |-> lpParameters, status |-> oc]

\* how run_script_as_admin ends: the value returned or the exception that
\* leaves it, the requests made and what was printed
Admin(raised, result, requests, printed) ==
    [raised |-> raised, result |-> result, requests |-> requests, printed |-> printed]

\* the lines printed on entering the try block
Banner == <<"attempting_admin", "note_admin">>

\* a path that is put into the argument string as it is
QuotedPath_M(path) == path

\* \"{script_path}\"
QuotedPath(path) == <<DQuote>> \o path \o <<DQuote>>

\* the argument string of the extension, None being the empty string
AdminArgs(ext, path, u) ==
    IF ext = DotPs1
    THEN <<"-ExecutionPolicy", " ", "Bypass", " ", "-File", " ">> \o QuotedPath(path)
             \o (IF u THEN <<" ", "-Undo">> ELSE <<>>)
    ELSE IF ext = DotPy
    THEN QuotedPath(path) \o (IF u THEN <<" ", "--undo">> ELSE <<>>)
    ELSE IF ext \in {DotBat, DotCmd}
    THEN (IF u THEN <<"undo">> ELSE <<>>)
    ELSE <<>>

\* the program the elevation request names
AdminFile(ext, path) ==
    IF ext = DotPs1 THEN Tok("powershell")
    ELSE IF ext = DotPy THEN Tok("sys.executable")
    ELSE path

\* the request is made, its status is dropped, and True is returned
\* unless the call raised
Requested(ext, path, u, oc) ==
    IF oc = "raised" /\ Caught("OSError")
    THEN Admin("", FALSE, <<ShellExecuteW(AdminFile(ext, path), AdminArgs(ext, path, u), oc)>>,
               Banner \o <<"error_admin">>)
    ELSE Admin(IF oc = "raised" THEN "OSError" ELSE "", TRUE,
               <<ShellExecuteW(AdminFile(ext, path), AdminArgs(ext, path, u), oc)>>,
               Banner)

\* the .exe branch in undo mode: a warning and return False
AdminExeUndo(path) ==
    Admin("", FALSE, <<>>, Banner \o <<"WARNING: Undo operation not supported for EXE files">>)

\* a last branch whose exception leaves the function
AdminOther_M(path, ext) == Admin("ValueError", FALSE, <<>>, Banner)

\* the last branch: ValueError, turned into False by the except clause
AdminOther(path, ext) ==
    IF Caught("ValueError")
    THEN Admin("", FALSE, <<>>, Banner \o <<"error_admin">>)
    ELSE Admin("ValueError", FALSE, <<>>, Banner)

run_script_as_admin(path, u, oc) ==
    LET ext == ExtOf(path)
    IN  IF ext \in {DotPs1, DotPy, DotBat, DotCmd} THEN Requested(ext, path, u, oc)
        ELSE IF ext = DotExe
        THEN IF u THEN AdminExeUndo(path) ELSE Requested(ext, path, u, oc)
        ELSE AdminOther(path, ext)

-----------------------------------------------------------------------------
(* Processes, readers and what they print *)

MaxOut == 2         \* lines a script writes
MaxExit == 2        \* the greatest exit code of a script

\* a line is text up to and including its line break; a line holding BAD
\* does not decode in the locale's encoding
OutLines == {<<"o","k","\n">>, <<" ","x"," ","\n">>, <<BAD,"\n">>}

Proc(cmd, shell) ==
    [cmd |-> cmd, shell |-> shell, written |-> <<>>, pipe |-> <<>>,
     open |-> TRUE, exited |-> FALSE, code |-> 0]

\* one entry of the sink: who printed it, what kind of message, its text
\* and the exit code it carries
Msg(src, kind, text, code) == [src |-> src, kind |-> kind, text |-> text, code |-> code]

\* the entries for what a launcher function printed itself
Printed(ws) == [i \in 1..Len(ws) |-> Msg(0, ws[i], <<>>, 0)]

\* a test that takes every code but 1 for success
Succeeded_M(return_code) == return_code # 1

\* return_code == 0
Succeeded(return_code) == return_code = 0

\* the completion message of read_output for a return code
Completion(i, return_code) ==
    IF Succeeded(return_code)
    THEN Msg(i, "success", <<>>, 0)
    ELSE Msg(i, "error_code", <<>>, return_code)

\* the dictionary run_script_web returns
Ret(success, kind, code, output) ==
    [success |-> success, kind |-> kind, code |-> code, output |-> output]

\* the result of run_script_web for a return code
WebCompletion(return_code, output) ==
    IF Succeeded(return_code)
    THEN Ret(TRUE, "executed", 0, output)
    ELSE Ret(FALSE, "failed", return_code, output)

\* whether readline() raises on the line
Undecodable(line) == \E k \in 1..Len(line) : line[k] = BAD

\* bool(x) of a string
Truthy(x) == x # <<>>

Call(via, path, u, raised, msg, proc) ==
    [via |-> via, path |-> path, undo |-> u, raised |-> raised, msg |-> msg,
     proc |-> proc]

-----------------------------------------------------------------------------
(* The launch paths as a state machine: one launch request, followed from   *)
(* the call of the controller to the end of the process it spawned.  A      *)
(* request shares no state with another one: each call builds its own       *)
(* command, process, pipe and reader thread.                                *)

RunPaths ==
    {<<"a",".","p","y">>, <<"d","/","a",".","P","Y">>,
     <<"d","/","a",".","p","s","1">>, <<"d",".","x","\\","a",".","B","a","t">>,
     <<"a",".","c","m","d">>, <<"a",".","e","x","e">>, <<"a",".","E","X","E">>,
     <<"a",".","t","x","t">>, <<"a">>, <<".","p","y">>}

\* the headers of the scripts that are launched
RunFiles ==
    {File("header", 0, "x", <<>>),
     File("header", 0, "x", <<PlainLine(Hash, "UNDOABLE")>>),
     File("undo", 0, "x",
          <<Line(Hash, <<" ">>, "upper", "UNDOABLE", <<" ">>, No, <<>>, LF)>>)}

InitRun ==
    /\ front \in {"desktop", "web"}
    /\ script_path = <<>>
    /\ fstate = "readable"
    /\ file = File("header", 0, "x", <<>>)
    /\ win32 = NoWin32
    /\ meta = NoMeta
    /\ ppc = "ready"
    /\ gui = NoGui
    /\ auth = NoAuth
    /\ undo = FALSE
    /\ cpc = "idle"
    /\ ret = NoRet
    /\ calls = <<>>
    /\ procs = <<>>
    /\ readers = <<>>
    /\ sink = <<>>
    /\ elev = <<>>
    /\ shown = 0

\* ScriptController.run_script up to the start of the reader thread, or
\* through its except clause, for one script; ok tells whether
\* subprocess.Popen finds the program
CtlLaunch(path, u, f, ok) ==
    LET r == run_script(path, u)
        e == IF r.raised # "" THEN r.raised ELSE IF ok THEN "" ELSE "OSError"
        i == Len(procs) + 1
    IN  /\ script_path' = path
        /\ file' = f
        /\ undo' = u
        /\ calls' = Append(calls, Call("run_script", path, u, e, r.msg,
                                       IF e = "" THEN i ELSE 0))
        /\ IF e = ""
           THEN /\ procs' = Append(procs, Proc(r.cmd, r.shell))
                /\ readers' = Append(readers, [pc |-> "start"])
                /\ sink' = sink \o Printed(r.printed)
                /\ cpc' = "started"
                /\ ret' = ret
           ELSE /\ procs' = procs
                /\ readers' = readers
                /\ sink' = sink \o Printed(r.printed)
                             \o (IF Caught(e)
                                 THEN <<Msg(0, "error_dialog", r.msg, 0)>>
                                 ELSE <<>>)
                /\ cpc' = IF Caught(e) THEN "idle" ELSE "raised"
                /\ ret' = Ret(FALSE, "error", 0, <<>>)
        /\ UNCHANGED <<elev, shown, front, fstate, win32, meta, ppc, gui, auth>>

\* the one launch request of the desktop program
CtlRunScript ==
    /\ front = "desktop"
    /\ cpc = "idle"
    /\ calls = <<>>
    /\ \E path \in RunPaths, u \in BOOLEAN, f \in RunFiles, ok \in BOOLEAN :
          CtlLaunch(path, u, f, ok)

\* ScriptController.run_script after the thread is started: it prints
\* "Running <name>" and returns True
CtlAnnounce ==
    /\ cpc = "started"
    /\ sink' = Append(sink, Msg(0, IF undo THEN "undoing" ELSE "running",
                                Basename(script_path), 0))
    /\ ret' = Ret(TRUE, "started", 0, <<>>)
    /\ cpc' = "idle"
    /\ UNCHANGED <<parseVars, elev, shown, front, undo, calls, procs, readers>>

\* the paths of the scripts run as administrator
AdminPaths == RunPaths \cup {<<"a"," ","b",".","p","y">>}

\* ScriptController.run_script_as_admin, from the call to its return
CtlRunScriptAsAdmin ==
    /\ front = "desktop"
    /\ cpc = "idle"
    /\ calls = <<>>
    /\ \E path \in AdminPaths, u \in BOOLEAN, f \in RunFiles, oc \in Elevations :
          LET r == run_script_as_admin(path, u, oc)
          IN  /\ script_path' = path
              /\ file' = f
              /\ undo' = u
              /\ calls' = Append(calls, Call("run_script_as_admin", path, u,
                                             r.raised, <<>>, 0))
              /\ elev' = elev \o r.requests
              /\ sink' = sink \o Printed(r.printed)
                           \o (IF r.raised # ""
                               THEN <<Msg(0, "error_dialog", <<>>, 0)>>
                               ELSE IF r.result
                               THEN Printed(<<"running_admin", "attempting_admin",
                                              "note_admin">>)
                               ELSE <<>>)
              /\ ret' = Ret(r.raised = "" /\ r.result, "admin", 0, <<>>)
    /\ UNCHANGED <<shown, front, fstate, win32, meta, ppc, gui, auth, cpc, procs, readers>>

\* ConsoleView.update_console: the timer callback takes everything that
\* is in the queue, in queue order, and appends it to the console
UpdateConsole ==
    /\ front = "desktop"
    /\ shown < Len(sink)
    /\ shown' = Len(sink)
    /\ UNCHANGED <<parseVars, elev, front, undo, cpc, ret, calls, procs, readers, sink>>

\* the script writes a line to its standard output or error
ChildWrite(i) ==
    /\ procs[i].open
    /\ ~procs[i].exited
    /\ Len(procs[i].written) < MaxOut
    /\ \E line \in OutLines :
          procs' = [procs EXCEPT ![i].written = Append(@, line),
                                 ![i].pipe = Append(@, line)]
    /\ UNCHANGED <<parseVars, elev, shown, front, undo, cpc, ret, calls, readers, sink>>

\* the script closes its output while it keeps running
ChildCloseOut(i) ==
    /\ procs[i].open
    /\ ~procs[i].exited
    /\ procs' = [procs EXCEPT ![i].open = FALSE]
    /\ UNCHANGED <<parseVars, elev, shown, front, undo, cpc, ret, calls, readers, sink>>

\* the script exits
ChildExit(i) ==
    /\ ~procs[i].exited
    /\ \E code \in 0..MaxExit :
          procs' = [procs EXCEPT ![i].exited = TRUE, ![i].code = code,
                                 ![i].open = FALSE]
    /\ UNCHANGED <<parseVars, elev, shown, front, undo, cpc, ret, calls, readers, sink>>

\* read_output: the line printed before the loop
ReaderStart(i) ==
    /\ readers[i].pc = "start"
    /\ readers' = [readers EXCEPT ![i].pc = "loop"]
    /\ sink' = Append(sink, Msg(i, "header", <<>>, 0))
    /\ UNCHANGED <<parseVars, elev, shown, front, undo, cpc, ret, calls, procs>>

\* read_output: readline() returns a line, which is printed stripped, or
\* raises on it, which the except clause reports
ReaderReadLine(i) ==
    /\ readers[i].pc = "loop"
    /\ procs[i].pipe # <<>>
    /\ LET output == Head(procs[i].pipe)
       IN  /\ procs' = [procs EXCEPT ![i].pipe = Tail(@)]
           /\ IF Undecodable(output)
              THEN /\ readers' = [readers EXCEPT ![i].pc = "failed"]
                   /\ sink' = Append(sink, Msg(i, "read_error", <<>>, 0))
              ELSE /\ readers' = readers
                   /\ sink' = Append(sink, Msg(i, "line", Strip(output), 0))
    /\ UNCHANGED <<parseVars, elev, shown, front, undo, cpc, ret, calls>>

\* a reader that leaves its loop as soon as the script has exited, whatever
\* is still in the pipe
ReaderBreakAtExit_M(i) ==
    /\ readers[i].pc = "loop"
    /\ procs[i].exited
    /\ readers' = [readers EXCEPT ![i].pc = "report"]
    /\ UNCHANGED <<parseVars, elev, shown, front, undo, cpc, ret, calls, procs, sink>>

\* a reader that leaves its loop at end of stream, whether or not the
\* script has exited
ReaderBreakAtEof_M(i) ==
    /\ readers[i].pc = "loop"
    /\ procs[i].pipe = <<>>
    /\ ~procs[i].open
    /\ readers' = [readers EXCEPT ![i].pc = "report"]
    /\ UNCHANGED <<parseVars, elev, shown, front, undo, cpc, ret, calls, procs, sink>>

\* a reader that leaves its loop only when every script has ended
ReaderBreak_M(i) ==
    /\ readers[i].pc = "loop"
    /\ procs[i].pipe = <<>>
    /\ \A j \in DOMAIN procs : ~procs[j].open /\ procs[j].exited
    /\ readers' = [readers EXCEPT ![i].pc = "report"]
    /\ UNCHANGED <<parseVars, elev, shown, front, undo, cpc, ret, calls, procs, sink>>

\* read_output: readline() returns '' at end of stream and poll() is not
\* None, so the loop is left (while poll() is None the loop goes round
\* without a change of state)
ReaderBreak(i) ==
    /\ readers[i].pc = "loop"
    /\ procs[i].pipe = <<>>
    /\ ~procs[i].open
    /\ procs[i].exited
    /\ readers' = [readers EXCEPT ![i].pc = "report"]
    /\ UNCHANGED <<parseVars, elev, shown, front, undo, cpc, ret, calls, procs, sink>>

\* read_output: return_code = process.poll() and the completion message
ReaderReport(i) ==
    /\ readers[i].pc = "report"
    /\ sink' = Append(sink, Completion(i, procs[i].code))
    /\ readers' = [readers EXCEPT ![i].pc = "done"]
    /\ UNCHANGED <<parseVars, elev, shown, front, undo, cpc, ret, calls, procs>>

\* run_script_web up to subprocess.Popen, or to an early return
WebCall ==
    /\ front = "web"
    /\ cpc = "idle"
    /\ calls = <<>>
    /\ \E path \in RunPaths, u \in BOOLEAN, st \in {"readable", "missing"},
          f \in RunFiles, ok \in BOOLEAN :
          LET m == parse_script_metadata(path, st, f, NoWin32).value
              r == web_command(path, u)
              i == Len(procs) + 1
              early ==
                  IF st = "missing" THEN "not_found"
                  ELSE IF u /\ ~Truthy(m.undoable) THEN "no_undo"
                  ELSE IF r.cmd = <<>> THEN "unsupported"
                  ELSE IF ~ok THEN "exception"
                  ELSE ""
          IN  /\ script_path' = path
              /\ undo' = u
              /\ fstate' = st
              /\ file' = f
              /\ meta' = IF st = "missing" THEN NoMeta ELSE m
              /\ calls' = Append(calls,
                    Call("run_script_web", path, u,
                         IF early = "exception" THEN "OSError" ELSE "",
                         IF early = "unsupported" THEN r.msg ELSE <<>>,
                         IF early = "" THEN i ELSE 0))
              /\ IF early = ""
                 THEN /\ procs' = Append(procs, Proc(r.cmd, r.shell))
                      /\ sink' = Append(sink, Msg(0, "executing", <<>>, 0))
                      /\ ret' = Ret(FALSE, "reading", 0, <<>>)
                      /\ cpc' = "web_reading"
                 ELSE /\ procs' = procs
                      /\ sink' = Append(sink, Msg(0, "error", Tok(early), 0))
                      /\ ret' = Ret(FALSE, early, 0, <<>>)
                      /\ cpc' = "returned"
    /\ UNCHANGED <<elev, shown, front, win32, ppc, gui, auth, readers>>

\* run_script_web: one round of "for line in process.stdout", or the
\* except clause when the line does not decode
WebReadLine ==
    /\ cpc = "web_reading"
    /\ procs[Len(procs)].pipe # <<>>
    /\ LET i == Len(procs)
           line == Head(procs[i].pipe)
       IN  /\ procs' = [procs EXCEPT ![i].pipe = Tail(@)]
           /\ IF Undecodable(line)
              THEN /\ ret' = Ret(FALSE, "exception", 0, <<>>)
                   /\ sink' = Append(sink, Msg(0, "error", Tok("exception"), 0))
                   /\ cpc' = "returned"
              ELSE /\ ret' = [ret EXCEPT !.output = Append(@, Strip(line))]
                   /\ sink' = Append(sink, Msg(i, "line", Strip(line), 0))
                   /\ cpc' = cpc
    /\ UNCHANGED <<parseVars, elev, shown, front, undo, calls, readers>>

\* run_script_web: the stream ended, process.wait() returned, and the
\* result is built from the return code
WebFinish ==
    /\ cpc = "web_reading"
    /\ LET i == Len(procs)
       IN  /\ procs[i].pipe = <<>>
           /\ ~procs[i].open
           /\ procs[i].exited
           /\ ret' = WebCompletion(procs[i].code, ret.output)
           /\ sink' = Append(sink, Msg(0, IF Succeeded(procs[i].code)
                                          THEN "success" ELSE "error_code",
                                       <<>>, procs[i].code))
    /\ cpc' = "returned"
    /\ UNCHANGED <<parseVars, elev, shown, front, undo, calls, procs, readers>>

\* the /run_script view answers the request with the result
WebRespond ==
    /\ front = "web"
    /\ cpc = "returned"
    /\ cpc' = "idle"
    /\ UNCHANGED <<parseVars, elev, shown, front, undo, ret, calls, procs, readers, sink>>

NextRun ==
    \/ CtlRunScript
    \/ CtlAnnounce
    \/ CtlRunScriptAsAdmin
    \/ UpdateConsole
    \/ WebCall
    \/ WebReadLine
    \/ WebFinish
    \/ WebRespond
    \/ \E i \in DOMAIN procs :
          \/ ChildWrite(i)
          \/ ChildCloseOut(i)
          \/ ChildExit(i)
    \/ \E i \in DOMAIN readers :
          \/ ReaderStart(i)
          \/ ReaderReadLine(i)
          \/ ReaderBreak(i)
          \/ ReaderReport(i)

SpecRun == InitRun /\ [][NextRun]_vars

\* the initiating thread runs whenever it can: the desktop UI thread in
\* ScriptController.run_script, the request thread in run_script_web and
\* the view.  Nothing is assumed of the scripts or the reader threads.
InitiatorRuns ==
    /\ WF_vars(CtlAnnounce)
    /\ WF_vars(WebReadLine)
    /\ WF_vars(WebFinish)
    /\ WF_vars(WebRespond)

SpecInitiator == InitRun /\ [][NextRun]_vars /\ InitiatorRuns

\* the reader thread of the launch runs whenever it can take a step:
\* read_output is the target of a thread of its own, which the interpreter
\* schedules.  Nothing is assumed of the script or of the other threads.
ReaderRuns ==
    /\ WF_vars(1 \in DOMAIN readers /\ ReaderStart(1))
    /\ WF_vars(1 \in DOMAIN readers /\ ReaderReadLine(1))
    /\ WF_vars(1 \in DOMAIN readers /\ ReaderBreak(1))
    /\ WF_vars(1 \in DOMAIN readers /\ ReaderReport(1))

SpecReader == InitRun /\ [][NextRun]_vars /\ ReaderRuns

-----------------------------------------------------------------------------
(* Two launches from the desktop program: the second script is launched     *)
(* while the first may still run.  The scripts write one kind of line, so   *)
(* that the two processes and their readers can be followed together.       *)

Launches == {1, 2}

MaxPairOut == 1     \* lines each of the two scripts writes

PairPaths == {<<"a",".","p","y">>}

PairLine == <<"o","k","\n">>

InitPair == InitRun /\ front = "desktop"

\* ScriptController.run_script, called again before earlier scripts ended
PairLaunch ==
    /\ front = "desktop"
    /\ cpc = "idle"
    /\ Len(procs) + 1 \in Launches
    /\ \E path \in PairPaths :
          CtlLaunch(path, FALSE, File("header", 0, "x", <<>>), TRUE)

\* a script writes a line
PairWrite(i) ==
    /\ procs[i].open
    /\ ~procs[i].exited
    /\ Len(procs[i].written) < MaxPairOut
    /\ procs' = [procs EXCEPT ![i].written = Append(@, PairLine),
                              ![i].pipe = Append(@, PairLine)]
    /\ UNCHANGED <<parseVars, elev, shown, front, undo, cpc, ret, calls, readers, sink>>

NextPair ==
    \/ PairLaunch
    \/ CtlAnnounce
    \/ \E i \in DOMAIN procs :
          \/ PairWrite(i)
          \/ ChildCloseOut(i)
          \/ ChildExit(i)
    \/ \E i \in DOMAIN readers :
          \/ ReaderStart(i)
          \/ ReaderReadLine(i)
          \/ ReaderBreak(i)
          \/ ReaderReport(i)

\* every reader thread that can take a step takes one; nothing is assumed
\* of the scripts, which may run for ever
ReadersRun ==
    \A i \in Launches :
        /\ WF_vars(i \in DOMAIN readers /\ ReaderStart(i))
        /\ WF_vars(i \in DOMAIN readers /\ ReaderReadLine(i))
        /\ WF_vars(i \in DOMAIN readers /\ ReaderBreak(i))
        /\ WF_vars(i \in DOMAIN readers /\ ReaderReport(i))

SpecPair == InitPair /\ [][NextPair]_vars /\ ReadersRun

-----------------------------------------------------------------------------
(* The script list of the desktop window: one script of a category is       *)
(* listed, and the user clicks on its row.                                  *)

script_extensions == {DotPs1, DotPy, DotBat, DotCmd, DotExe}

\* "Yes" if undoable else "No"
UndoableColumn(undoable) == IF Truthy(undoable) THEN Yes ELSE No

\* the row load_scripts inserts for a script
TreeRow(path, m) ==
    [name |-> m.name, undoable |-> UndoableColumn(m.undoable), path |-> path]

\* the dictionary get_selected_script builds from the row
get_selected_script(row) ==
    [name |-> row.name, undoable |-> (row.undoable = Yes), path |-> row.path]

\* the launch entries of the context menu
ContextMenu(script_info) ==
    {"Run", "Run as Administrator"}
        \cup (IF script_info.undoable THEN {"Undo", "Undo as Administrator"} ELSE {})

\* what a double click leads to: the run/undo dialog, or the run itself
DoubleClickOffer(script_info) ==
    IF script_info.undoable THEN {"Dialog: Run", "Dialog: Undo"} ELSE {"Run"}

GuiPaths ==
    {<<"a",".","p","y">>, <<"d","/","a",".","p","s","1">>, <<"a",".","c","m","d">>,
     <<"a",".","E","X","E">>, <<"a",".","t","x","t">>}

InitGui ==
    /\ script_path \in GuiPaths
    /\ fstate \in {"readable", "denied"}
    /\ file \in RunFiles
    /\ win32 \in IF ExtOf(script_path) = DotExe THEN Win32s ELSE {NoWin32}
    /\ meta = NoMeta
    /\ ppc = "ready"
    /\ gui = NoGui
    /\ auth = NoAuth
    /\ front = "gui"
    /\ undo = FALSE
    /\ cpc = "idle"
    /\ ret = NoRet
    /\ calls = <<>>
    /\ procs = <<>>
    /\ readers = <<>>
    /\ sink = <<>>
    /\ elev = <<>>
    /\ shown = 0

\* ScriptView.load_scripts for a category holding the one file: the file
\* is listed when its extension is a script extension, with the metadata
\* parsed from it
LoadScripts ==
    /\ front = "gui"
    /\ ppc = "ready"
    /\ IF ExtOf(script_path) \in script_extensions
       THEN LET r == parse_script_metadata(script_path, fstate, file, win32)
            IN  IF r.raised = ""
                THEN /\ meta' = r.value
                     /\ ppc' = "returned"
                     /\ gui' = [gui EXCEPT !.tree = <<TreeRow(script_path, r.value)>>]
                ELSE /\ meta' = meta
                     /\ ppc' = "raised"
                     /\ gui' = gui
       ELSE /\ meta' = meta
            /\ ppc' = "skipped"
            /\ gui' = gui
    /\ UNCHANGED <<script_path, fstate, file, win32, auth>>
    /\ UNCHANGED runVars

\* ScriptExplorer.on_script_right_click on the row
RightClick ==
    /\ front = "gui"
    /\ gui.tree # <<>>
    /\ gui.click = ""
    /\ gui' = [gui EXCEPT !.click = "right",
                          !.menu = ContextMenu(get_selected_script(gui.tree[1]))]
    /\ UNCHANGED <<script_path, fstate, file, win32, meta, ppc, auth>>
    /\ UNCHANGED runVars

\* ScriptExplorer.on_script_double_click on the row
DoubleClick ==
    /\ front = "gui"
    /\ gui.tree # <<>>
    /\ gui.click = ""
    /\ gui' = [gui EXCEPT !.click = "double",
                          !.menu = DoubleClickOffer(get_selected_script(gui.tree[1]))]
    /\ UNCHANGED <<script_path, fstate, file, win32, meta, ppc, auth>>
    /\ UNCHANGED runVars

NextGui == FileVanishes \/ LoadScripts \/ RightClick \/ DoubleClick

SpecGui == InitGui /\ [][NextGui]_vars

-----------------------------------------------------------------------------
(* Script launcher: claims *)

Ps1Written == {<<".","p","s","1">>}

PyWritten == {<<".","p","y">>, <<".","P","Y">>}

\* the request was served by run_script of script_runner.py
ByRunScript == calls # <<>> /\ calls[1].via = "run_script"

\* the invocation the launcher's table gives for a script in RUN mode
RunInvocation(p) ==
    IF HasExt(p, Ps1Written)
    THEN <<Tok("powershell"), Tok("-ExecutionPolicy"), Tok("Bypass"), Tok("-File"), p>>
    ELSE IF HasExt(p, PyWritten)
    THEN <<Tok("sys.executable"), p>>
    ELSE <<p>>

\* the argument the table appends in UNDO mode
UndoWord(p) ==
    IF HasExt(p, Ps1Written) THEN Tok("-Undo")
    ELSE IF HasExt(p, PyWritten) THEN Tok("--undo")
    ELSE Tok("undo")

\* the script type is one of the five the launcher knows
Supported(p) ==
    HasExt(p, Ps1Written \cup PyWritten \cup BatWritten \cup ExeWritten)

\* C7: the process run_script spawns has the invocation of its extension:
\* powershell -ExecutionPolicy Bypass -File path for .ps1, the host
\* interpreter and the path for .py, the path alone for .bat, .cmd and .exe;
\* in RUN mode nothing follows, in UNDO mode exactly one argument follows
\* (-Undo, --undo, undo).
C7_ExtensionDispatch ==
    ByRunScript /\ calls[1].proc # 0 =>
        LET c == calls[1]
            cmd == procs[c.proc].cmd
        IN  /\ ~c.undo => cmd = RunInvocation(c.path)
            /\ c.undo =>
                  /\ cmd = Append(RunInvocation(c.path), UndoWord(c.path))
                  /\ cmd = Append(run_script(c.path, FALSE).cmd, UndoWord(c.path))
                  /\ ~HasExt(c.path, ExeWritten)

C7_Witness ==
    /\ ByRunScript
    /\ calls[1].undo
    /\ calls[1].proc = 1
    /\ procs[1].cmd = <<Tok("sys.executable"), <<"d","/","a",".","P","Y">>, Tok("--undo")>>

\* C8: run_script with an .exe path in UNDO mode raises the not-supported
\* error: no process is spawned, no handle is returned, no reader started.
C8_ExeUndoRaises ==
    ByRunScript /\ calls[1].undo /\ HasExt(calls[1].path, ExeWritten) =>
        /\ calls[1].raised = "ValueError"
        /\ calls[1].msg = Tok("Undo operation not supported for EXE files")
        /\ calls[1].proc = 0
        /\ procs = <<>>
        /\ readers = <<>>
        /\ ~ret.success

C8_Witness ==
    /\ ByRunScript
    /\ calls[1].undo
    /\ calls[1].path = <<"a",".","E","X","E">>
    /\ calls[1].raised = "ValueError"
    /\ ret.kind = "error"

\* C9: run_script with a path whose extension is none of .ps1, .py, .bat,
\* .cmd, .exe raises the unsupported-script-type error in either mode and
\* spawns no process.
C9_UnsupportedRaises ==
    ByRunScript /\ ~Supported(calls[1].path) =>
        /\ calls[1].raised = "ValueError"
        /\ Head(calls[1].msg) = "Unsupported script type: "
        /\ calls[1].proc = 0
        /\ procs = <<>>
        /\ readers = <<>>
        /\ ~ret.success

C9_Witness ==
    /\ ByRunScript
    /\ ~calls[1].undo
    /\ calls[1].path = <<"a",".","t","x","t">>
    /\ calls[1].raised = "ValueError"
    /\ calls[1].msg = <<"Unsupported script type: ", ".", "t", "x", "t">>
    /\ ret.kind = "error"

\* the completion messages the reader of process i printed
Completions(i) ==
    SelectSeq(sink, LAMBDA m : m.src = i /\ m.kind \in {"success", "error_code"})

-----------------------------------------------------------------------------
(* Executables: claims *)

\* the parser was called on an executable and the call is over
ExeParsed == ppc # "ready" /\ HasExt(script_path, ExeWritten)

\* the file name of an executable without its extension
StemOf(p) ==
    CHOOSE st \in (Stems \ {<<>>}) \cup {NulStem} :
        \E d \in Dirs, e \in ExeWritten : p = d \o st \o e

\* the version-resource lookup is unavailable, or one of its steps raises
LookupFailed == ~win32.available \/ win32.failAt # 0

\* C11: for every .exe path, with the version-resource facility available
\* or not and each lookup succeeding, raising or returning nothing, the
\* call returns a record with undoable "No", empty undo description,
\* developer and link, and a name that is not empty.
C11_ExeDeterminism ==
    ExeParsed =>
        /\ ppc = "returned"
        /\ meta.undoable = <<"N","o">>
        /\ meta.undo_desc = <<>>
        /\ meta.developer = <<>>
        /\ meta.link = <<>>
        /\ meta.name # <<>>

C11_Witness ==
    /\ ExeParsed
    /\ win32.available
    /\ win32.failAt = 2
    /\ win32.name # <<>>
    /\ meta.undoable = <<"N","o">>
    /\ meta.name = BaseNameOf(script_path)

\* C12: when the version-resource lookup is unavailable or raises, the name
\* returned for an executable is its file name with the extension stripped
\* and the description is "Windows Executable" or "Executable file".
C12_ExeFallbackValues ==
    ExeParsed /\ ppc = "returned" /\ LookupFailed =>
        /\ meta.name = StemOf(script_path)
        /\ meta.description \in {<<"Windows Executable">>, <<"Executable file">>}

-----------------------------------------------------------------------------
(* Elevated launcher: claims *)

\* the request was served by run_script_as_admin
ByAdmin == calls # <<>> /\ calls[1].via = "run_script_as_admin"

RECURSIVE SplitArgs(_, _, _, _)
\* the arguments a program receives from an argument string: blanks
\* separate them and a pair of double quotes keeps blanks inside one
SplitArgs(s, cur, quoted, started) ==
    IF s = <<>> THEN (IF started THEN <<cur>> ELSE <<>>)
    ELSE IF Head(s) = DQuote THEN SplitArgs(Tail(s), cur, ~quoted, TRUE)
    ELSE IF Head(s) = " " /\ ~quoted
    THEN (IF started THEN <<cur>> ELSE <<>>) \o SplitArgs(Tail(s), <<>>, FALSE, FALSE)
    ELSE SplitArgs(Tail(s), Append(cur, Head(s)), quoted, TRUE)

\* program and arguments of an elevation request
ArgvOf(req) == <<req.file>> \o SplitArgs(req.params, <<>>, FALSE, FALSE)

\* the operating system accepted an elevation request
Accepted == \E k \in DOMAIN elev : elev[k].status = "accepted"

SpacePath == <<"a"," ","b",".","p","y">>

\* C13: run_script_as_admin returns true exactly when the operating system
\* accepted the elevation request; a request refused by return status (the
\* consent prompt was declined) gives false like one that raised.
C13_ElevationResult ==
    ByAdmin => (ret.success <=> Accepted)

\* C14: for every extension and mode run_script accepts, the elevation
\* request names the same program and carries the same arguments in the
\* same order, the undo argument included, as the command run_script
\* builds.
C14_LauncherEquivalence ==
    ByAdmin /\ run_script(calls[1].path, calls[1].undo).raised = "" =>
        /\ Len(elev) = 1
        /\ elev[1].verb = "runas"
        /\ ArgvOf(elev[1]) = run_script(calls[1].path, calls[1].undo).cmd
        /\ Supported(calls[1].path) =>
              ArgvOf(elev[1]) =
                  IF calls[1].undo
                  THEN Append(RunInvocation(calls[1].path), UndoWord(calls[1].path))
                  ELSE RunInvocation(calls[1].path)

C14_Witness ==
    /\ ByAdmin
    /\ calls[1].path = SpacePath
    /\ calls[1].undo
    /\ Len(elev) = 1
    /\ elev[1].file = Tok("sys.executable")
    /\ elev[1].params = <<DQuote>> \o SpacePath \o <<DQuote, " ", "--undo">>

\* C15: run_script_as_admin with an .exe path in UNDO mode is rejected
\* before the elevation facility is invoked, and its caller gets the same
\* kind of failure as the caller of run_script with .exe and UNDO.
C15_AdminExeUndo ==
    ByAdmin /\ calls[1].undo /\ HasExt(calls[1].path, ExeWritten) =>
        /\ elev = <<>>
        /\ ~ret.success
        /\ calls[1].raised = run_script(calls[1].path, TRUE).raised

\* C16: run_script_as_admin returns a boolean and lets no exception out,
\* for every path, mode and outcome of the elevation facility; for an
\* extension outside the mapping it returns false and makes no request.
C16_AdminTotal ==
    ByAdmin =>
        /\ calls[1].raised = ""
        /\ ret.kind = "admin"
        /\ ret.success \in BOOLEAN
        /\ \A k \in DOMAIN sink : sink[k].kind # "error_dialog"
        /\ \A k \in DOMAIN elev : elev[k].status = "raised" => ~ret.success
        /\ ~(Supported(calls[1].path) \/ calls[1].path = SpacePath) =>
              ~ret.success /\ elev = <<>>

C16_Witness ==
    /\ ByAdmin
    /\ calls[1].path = <<"a",".","t","x","t">>
    /\ calls[1].undo
    /\ calls[1].raised = ""
    /\ ~ret.success
    /\ elev = <<>>
    /\ \E k \in DOMAIN sink : sink[k].kind = "error_admin"

-----------------------------------------------------------------------------
(* Readers and the display: claims *)

\* the initiating thread is inside a launch that spawned a process
InLaunch == cpc \in {"started", "web_reading"}

\* the initiating thread is back from the launch
BackFromLaunch == cpc \in {"idle", "returned"}

\* C17: on every launch path the initiating thread returns from the launch
\* whatever the child does: it gets back without the child's end of stream
\* or exit, which are left to a separate reader.
C17_NonBlocking == InLaunch ~> BackFromLaunch

\* the lines of process i among the first k entries of the sink
LinesOf(i, k) ==
    SelectSeq(SubSeq(sink, 1, k), LAMBDA m : m.src = i /\ m.kind = "line")

\* the lines of process i the console view has displayed
Delivered(i) == LinesOf(i, shown)

\* a line as the child wrote it, without its line break
Chomp(line) == SubSeq(line, 1, Len(line) - 1)

\* t is l without the blanks and line breaks at its two ends
IsStripOf(t, l) ==
    \E a \in 0..Len(l), b \in 0..Len(l) :
        /\ a + Len(t) + b = Len(l)
        /\ t = SubSeq(l, a + 1, a + Len(t))
        /\ \A k \in 1..a : l[k] \in {" ", "\t", "\r", "\n"}
        /\ \A k \in (Len(l) - b + 1)..Len(l) : l[k] \in {" ", "\t", "\r", "\n"}
        /\ t # <<>> => t[1] \notin {" ", "\t", "\r", "\n"}
                       /\ t[Len(t)] \notin {" ", "\t", "\r", "\n"}

\* everything reader i printed is on display
AllShown(i) == readers[i].pc = "done" /\ shown = Len(sink)

-----------------------------------------------------------------------------
(* Concurrent launches: claims *)

\* script i ended and its stream is at its end
Ended(i) == i \in DOMAIN procs /\ procs[i].exited

\* reader i delivered every line of its script and reported the outcome
Served(i) ==
    /\ i \in DOMAIN readers
    /\ readers[i].pc = "done"
    /\ Len(LinesOf(i, Len(sink))) = Len(procs[i].written)
    /\ Len(Completions(i)) = 1

\* each launch has a process, a stream and a reader of its own: reader i
\* prints lines of script i only, and reports once script i ended
OwnReader ==
    /\ Len(readers) = Len(procs)
    /\ \A i \in DOMAIN readers :
          /\ Len(LinesOf(i, Len(sink))) + Len(procs[i].pipe) = Len(procs[i].written)
          /\ readers[i].pc \in {"report", "done"} => procs[i].exited

-----------------------------------------------------------------------------
(* Undo and the undoable flag: claims *)

\* the script types that take an undo argument
UndoWritten == Ps1Written \cup PyWritten \cup BatWritten

\* what the header of the launched script declares for UNDOABLE
DeclaredUndoable ==
    IF file.lines = <<>> THEN "nothing"
    ELSE IF file.lines[1].value \in TrueValues THEN "true" ELSE "false"

\* the undo invocation of a script
UndoInvocation(p) == Append(RunInvocation(p), UndoWord(p))

\* C20: run_script and run_script_as_admin in UNDO mode on a .ps1, .py,
\* .bat or .cmd script launch the undo invocation whether the header of
\* the script declares undoable true, false or nothing: only Popen not
\* finding the program, or the elevation call raising, stops the launch.
C20_UndoableNotEnforced ==
    /\ ByRunScript /\ calls[1].undo /\ HasExt(calls[1].path, UndoWritten) =>
          /\ calls[1].raised \in {"", "OSError"}
          /\ calls[1].raised = "" =>
                /\ calls[1].proc = 1
                /\ procs[1].cmd = UndoInvocation(calls[1].path)
    /\ ByAdmin /\ calls[1].undo /\ HasExt(calls[1].path, UndoWritten) =>
          /\ Len(elev) = 1
          /\ ArgvOf(elev[1]) = UndoInvocation(calls[1].path)
          /\ elev[1].status # "raised" => ret.success

C20_Witness ==
    /\ ByRunScript
    /\ calls[1].undo
    /\ calls[1].path = <<"d","/","a",".","p","s","1">>
    /\ DeclaredUndoable = "false"
    /\ parse_script_metadata(calls[1].path, "readable", file, NoWin32).value.undoable
           = <<"N","o">>
    /\ calls[1].proc = 1
    /\ procs[1].cmd[Len(procs[1].cmd)] = Tok("-Undo")

-----------------------------------------------------------------------------
(* The desktop window and the web handler: claims *)

\* the entries that start an undo
UndoEntries == {"Undo", "Undo as Administrator", "Dialog: Undo"}

\* C21: the desktop window offers an Undo action (context menu "Undo" and
\* "Undo as Administrator", the run/undo dialog on double click) only for
\* a script whose parsed metadata says undoable; a script parsed as not
\* undoable is listed as "No" and can only be run.
C21_UndoOffered ==
    front = "gui" /\ gui.tree # <<>> =>
        /\ meta.undoable = <<"N","o">> => gui.tree[1].undoable = <<"N","o">>
        /\ gui.menu \cap UndoEntries # {} => meta.undoable = <<"Y","e","s">>

\* the request was served by run_script_web
ByWeb == calls # <<>> /\ calls[1].via = "run_script_web"

\* C22: run_script_web in undo mode on an existing script whose parsed
\* metadata does not say undoable (a script of a supported type on a host
\* that can spawn it, so that nothing else refuses) returns success = false with the
\* "does not support undo" message and spawns no process.
C22_WebUndoRejected ==
    ByWeb /\ calls[1].undo /\ fstate = "readable" /\ meta.undoable = <<"N","o">>
          /\ Supported(calls[1].path) /\ calls[1].raised = "" =>
        /\ ~ret.success
        /\ ret.kind = "no_undo"
        /\ procs = <<>>

\* C23: on every launch path (run_script, run_script_as_admin,
\* run_script_web) a request in UNDO mode for an .exe file reaches no
\* process creation: the executable is never spawned, with or without an
\* undo argument, and no elevation request is made for it.
C23_ExeUndoNeverSpawned ==
    calls # <<>> /\ calls[1].undo /\ HasExt(calls[1].path, ExeWritten) =>
        /\ procs = <<>>
        /\ elev = <<>>

-----------------------------------------------------------------------------
(* The reader thread: claims *)

\* the reader thread of process i has ended
ReaderOver(i) == readers[i].pc \in {"done", "failed"}

\* everything reader i put in the sink
PrintedBy(i) == SelectSeq(sink, LAMBDA m : m.src = i)

\* the completion message of reader i was printed when script i had exited
\* and all its lines were in the sink, and reader i printed nothing after it
CompletionLast(i) ==
    Completions(i) # <<>> =>
        /\ procs[i].exited
        /\ procs[i].pipe = <<>>
        /\ Len(LinesOf(i, Len(sink))) = Len(procs[i].written)
        /\ PrintedBy(i)[Len(PrintedBy(i))].kind \in {"success", "error_code"}

LeavesLoop(i) == readers[i].pc = "loop" /\ readers'[i].pc = "report"

\* the last read of reader i returned end of stream
AtEndOfStream(i) == procs[i].pipe = <<>> /\ ~procs[i].open

\* reader i has ended, and the last thing it printed is its report
ReaderReported(i) ==
    /\ i \in DOMAIN readers
    /\ ReaderOver(i)
    /\ PrintedBy(i)[Len(PrintedBy(i))].kind \in {"success", "error_code", "read_error"}

-----------------------------------------------------------------------------
(* ScriptController.run_script: claims *)

\* the error reports in the sink
ErrorDialogs == SelectSeq(sink, LAMBDA m : m.kind = "error_dialog")

\* C26: ScriptController.run_script makes one spawn attempt for a request
\* and never a second one.  When the launcher raises (unsupported type,
\* .exe with undo, the spawn failing) the error is reported once, no
\* process and no reader thread exist and the call returns false; it
\* returns true only with one process spawned and one reader started for
\* it, and then no error is reported.
C26_SingleAttempt ==
    ByRunScript =>
        /\ Len(calls) = 1
        /\ Len(procs) <= 1
        /\ Len(readers) = Len(procs)
        /\ calls[1].raised # "" =>
              /\ cpc = "idle"
              /\ ~ret.success
              /\ ret.kind = "error"
              /\ Len(ErrorDialogs) = 1
              /\ ErrorDialogs[1].text = calls[1].msg
              /\ procs = <<>>
              /\ readers = <<>>
        /\ calls[1].raised = "" =>
              /\ Len(procs) = 1
              /\ calls[1].proc = 1
              /\ ErrorDialogs = <<>>
        /\ ret.success => calls[1].raised = "" /\ Len(readers) = 1

\* the spawn failed: reported once, nothing started, false returned
C26_Witness ==
    /\ ByRunScript
    /\ calls[1].path = <<"a",".","p","y">>
    /\ calls[1].raised = "OSError"
    /\ Len(ErrorDialogs) = 1
    /\ procs = <<>>
    /\ readers = <<>>
    /\ ret = Ret(FALSE, "error", 0, <<>>)
    /\ cpc = "idle"

-----------------------------------------------------------------------------
(* The redirected console: sys.stdout is a ConsoleRedirector, whose write   *)
(* puts its argument in the console queue.  print(line) calls write twice,  *)
(* with the text and then with the line terminator, and the interpreter may *)
(* switch threads between the two calls.  Two threads print here: reader    *)
(* threads in read_output, or a reader thread and the UI thread.            *)

Printers == {1, 2}

MaxPrints == 2      \* lines each thread prints

\* ConsoleRedirector.write(text): self.queue.put(text)
write(i, kind, text) == sink' = Append(sink, Msg(i, kind, text, 0))

InitConsole ==
    /\ front = "desktop"
    /\ script_path = <<>>
    /\ fstate = "readable"
    /\ file = File("header", 0, "x", <<>>)
    /\ win32 = NoWin32
    /\ meta = NoMeta
    /\ ppc = "ready"
    /\ gui = NoGui
    /\ auth = NoAuth
    /\ undo = FALSE
    /\ cpc = "idle"
    /\ ret = NoRet
    /\ calls = <<>>
    /\ procs = <<>>
    /\ readers = [i \in Printers |-> [pc |-> "print", printed |-> 0]]
    /\ sink = <<>>
    /\ elev = <<>>
    /\ shown = 0

\* print(output.strip()): the first write, of the text
PrintText(i) ==
    /\ readers[i].pc = "print"
    /\ readers[i].printed < MaxPrints
    /\ write(i, "text", <<"o","k">>)
    /\ readers' = [readers EXCEPT ![i].pc = "end"]
    /\ UNCHANGED <<parseVars, elev, shown, front, undo, cpc, ret, calls, procs>>

\* print(output.strip()): the second write, of the line terminator
PrintEnd(i) ==
    /\ readers[i].pc = "end"
    /\ write(i, "end", <<"\n">>)
    /\ readers' = [readers EXCEPT ![i].pc = "print", ![i].printed = @ + 1]
    /\ UNCHANGED <<parseVars, elev, shown, front, undo, cpc, ret, calls, procs>>

NextConsole ==
    \/ UpdateConsole
    \/ \E i \in Printers :
          \/ PrintText(i)
          \/ PrintEnd(i)

SpecConsole == InitConsole /\ [][NextConsole]_vars

\* C27: in the console queue the text of every printed line is immediately
\* followed by the line terminator of the same print: no text of another
\* thread comes between a text and its terminator.
C27_LineIntegrity ==
    \A k \in 1..Len(sink) :
        sink[k].kind = "text" /\ k < Len(sink) =>
            /\ sink[k + 1].kind = "end"
            /\ sink[k + 1].src = sink[k].src

-----------------------------------------------------------------------------
(* Line ends and repeated markers: claims *)

\* C28: a field is extracted only when its marker line has its line break
\* inside the first 2000 characters read: a marker on the last line of a
\* file without a final line break, and a marker line that starts inside
\* the first 2000 characters but whose line break lies beyond them, yield
\* the default of the field.
C28_TerminatedOnly ==
    TextParsed /\ file.family \in {"padded", "undo"} =>
        LET l == file.lines[1]
            p == script_path
        IN  /\ ~Complete(file, 1) => Got(meta, l.field) = DefaultOf(p, l.field)
            /\ Got(meta, l.field) # DefaultOf(p, l.field) =>
                  /\ l.eol # <<>>
                  /\ EndOf(file, 1) <= ReadLimit
                  /\ l.cm = CommentOf(p)
            /\ Complete(file, 1) /\ l.cm = CommentOf(p) =>
                  Got(meta, l.field) = Expected(file, p, l.field)

\* the NAME line starts inside the first 2000 characters and its line
\* break is character 2001
C28_Witness ==
    /\ TextParsed
    /\ file.family = "padded"
    /\ file.padUnit = "x"
    /\ file.lines[1].eol = LF
    /\ PadChars(file) < ReadLimit
    /\ EndOf(file, 1) = ReadLimit + 1
    /\ script_path = <<"a",".","p","y">>
    /\ meta.name = <<"a",".","p","y">>

\* the lines of the file that are written in the comment syntax of the
\* script type
OwnLines(f, p) == SelectSeq(f.lines, LAMBDA l : l.cm = CommentOf(p))

\* C29: when the marker of a field occurs more than once in the scanned
\* prefix, the field has the value of the first occurrence in file order,
\* and the later occurrences change nothing: the result is the one of the
\* file without them.  For UNDOABLE, No followed by Yes yields No.
C29_FirstOccurrence ==
    TextParsed /\ file.family = "repeated" /\ Len(OwnLines(file, script_path)) = 2 =>
        LET first == file.lines[1]
            F == first.field
        IN  /\ F # "UNDOABLE" => Got(meta, F) = first.value
            /\ F = "UNDOABLE" =>
                  meta.undoable = (IF first.value \in TrueValues THEN Yes ELSE No)
            /\ parse_script_metadata(script_path, fstate,
                                     [file EXCEPT !.lines = <<first>>], win32)
                   = Return(meta)

C29_Witness ==
    /\ TextParsed
    /\ file.family = "repeated"
    /\ Len(OwnLines(file, script_path)) = 2
    /\ file.lines[1].field = "UNDOABLE"
    /\ file.lines[1].value = No
    /\ file.lines[2].value = Yes
    /\ meta.undoable = No

-----------------------------------------------------------------------------
(* GitHub device flow: _poll_for_token of GitHubAuthHandler (desktop) and   *)
(* of GitHubAuthHandlerWeb.  The two differ in the status lines the desktop *)
(* one shows; the loop, the token and the result are the same.  Time is in  *)
(* seconds.                                                                 *)

MaxExpires == 12    \* the longest polling window

\* a key the response does not have
Absent == "None"

AccessTokens == {"gho_A", "gho_B"}

Errors ==
    {"authorization_pending", "slow_down", "expired_token", "access_denied",
     "unsupported_grant_type"}

\* what requests.post(...).json() gives: a JSON object with or without the
\* keys access_token and error, or an exception (no connection, a body that
\* is not JSON)
Responses ==
    {[raised |-> FALSE, access_token |-> t, error |-> e] :
        t \in AccessTokens \cup {Absent}, e \in Errors \cup {Absent}}
    \cup {[raised |-> TRUE, access_token |-> Absent, error |-> Absent]}

\* a handler that stores whatever the response holds under access_token
StoreToken_M(response_data, token) == response_data.access_token

\* self.token after the response: response_data['access_token'] when the
\* key is there
StoreToken(response_data, token) ==
    IF response_data.access_token # Absent
    THEN response_data.access_token
    ELSE token

\* interval += 5
SlowDown(interval) == interval + 5

\* what one round of the loop does with a response: "return True",
\* "return False" or "sleep"
Outcome(response_data) ==
    IF response_data.raised THEN "sleep"
    ELSE IF response_data.access_token # Absent THEN "return True"
    ELSE IF response_data.error \in {Absent, "authorization_pending", "slow_down"}
    THEN "sleep"
    ELSE "return False"

InitPoll ==
    /\ front \in {"desktop", "web"}
    /\ script_path = <<>>
    /\ fstate = "readable"
    /\ file = File("header", 0, "x", <<>>)
    /\ win32 = NoWin32
    /\ meta = NoMeta
    /\ ppc = "ready"
    /\ gui = NoGui
    /\ auth = NoAuth
    /\ undo = FALSE
    /\ cpc = "idle"
    /\ ret = NoRet
    /\ calls = <<>>
    /\ procs = <<>>
    /\ readers = <<>>
    /\ sink = <<>>
    /\ elev = <<>>
    /\ shown = 0

pollFrame == <<script_path, fstate, file, win32, meta, ppc, gui, runVars>>

\* authenticate calls _poll_for_token(device_code, interval, expires_in):
\* the handler has no token or one that is not valid, start_time is taken
PollForToken ==
    /\ auth.pc = "idle"
    /\ \E token \in {"None", "gho_old"}, interval \in {1, 5},
          expires_in \in {0, 5, MaxExpires} :
          auth' = [NoAuth EXCEPT !.pc = "test", !.token = token, !.before = token,
                                 !.interval = interval, !.expires_in = expires_in]
    /\ UNCHANGED pollFrame

\* while time.time() - start_time < expires_in, and the return after the
\* loop
PollTest ==
    /\ auth.pc = "test"
    /\ auth' = IF auth.elapsed < auth.expires_in
               THEN [auth EXCEPT !.pc = "post"]
               ELSE [auth EXCEPT !.pc = "returned", !.result = "False",
                                 !.exit = "timed out"]
    /\ UNCHANGED pollFrame

\* one round of the loop body: the request, which takes d seconds, and
\* what is done with the response
PollPost ==
    /\ auth.pc = "post"
    /\ \E response_data \in Responses, d \in 0..1 :
          LET o == Outcome(response_data)
              asked == [auth EXCEPT !.elapsed = @ + d,
                                    !.last = IF response_data.raised THEN "exception"
                                             ELSE response_data.error]
          IN  auth' =
                IF o = "return True"
                THEN [asked EXCEPT !.token = StoreToken(response_data, auth.token),
                                   !.granted = response_data.access_token,
                                   !.last = "access_token",
                                   !.pc = "returned", !.result = "True",
                                   !.exit = "access_token"]
                ELSE IF o = "return False"
                THEN [asked EXCEPT !.token = StoreToken(response_data, auth.token),
                                   !.pc = "returned", !.result = "False",
                                   !.exit = response_data.error]
                ELSE [asked EXCEPT !.token = StoreToken(response_data, auth.token),
                                   !.interval = IF ~response_data.raised
                                                   /\ response_data.error = "slow_down"
                                                THEN SlowDown(@) ELSE @,
                                   !.pc = "sleep"]
    /\ UNCHANGED pollFrame

\* time.sleep(interval)
PollSleep ==
    /\ auth.pc = "sleep"
    /\ auth' = [auth EXCEPT !.elapsed = @ + auth.interval, !.pc = "test"]
    /\ UNCHANGED pollFrame

NextPoll == PollForToken \/ PollTest \/ PollPost \/ PollSleep

SpecPoll == InitPoll /\ [][NextPoll]_vars

\* C30: _poll_for_token returns True exactly when a poll response held an
\* access token, and the handler's token is then that access token; on
\* every other exit (access denied, expired code, another error, the end
\* of the polling window) it returns False and the handler's token is what
\* it was.  authorization_pending, slow_down and connection errors never
\* end the loop, and the polling interval never decreases.
C30_TokenOnlyOnSuccess ==
    /\ [](auth.pc = "returned" =>
            /\ auth.result = "True" <=> auth.granted \in AccessTokens
            /\ auth.result = "True" =>
                  /\ auth.token = auth.granted
                  /\ auth.exit = "access_token"
            /\ auth.result = "False" =>
                  /\ auth.token = auth.before
                  /\ auth.exit \in {"access_denied", "expired_token",
                                    "unsupported_grant_type", "timed out"})
    /\ [](auth.pc \in {"test", "post", "sleep"} =>
            auth.token = auth.before /\ auth.granted = Absent)
    /\ [][auth.pc = "post"
             /\ auth'.last \in {"authorization_pending", "slow_down", "exception", Absent}
             => auth'.pc = "sleep"]_vars
    /\ [][auth.pc # "idle" => auth'.interval >= auth.interval]_vars

\* the poll was slowed down, then the user denied access: False, and the
\* token the handler had
C30_Witness ==
    /\ auth.pc = "returned"
    /\ auth.result = "False"
    /\ auth.exit = "access_denied"
    /\ auth.before = "gho_old"
    /\ auth.token = "gho_old"
    /\ auth.interval = 6
    /\ auth.elapsed > 6

=============================================================================
